---- MODULE Spec2Model ----
(***************************************************************************)
(* Model of the load_tester dispatch engine (src/src/main.rs): the three   *)
(* run modes simulate_burst, simulate_rps and simulate_multiple_urls, the  *)
(* spawned request tasks, the 2*rps semaphore, the round-robin counter and *)
(* the TestStats accumulator.                                              *)
(*                                                                         *)
(* Time is a discrete clock `now`; one second is OneSec clock units.       *)
(* Vec / slice indices are 0-based in the source and kept 0-based in the   *)
(* model's index values; TLA+ sequences are 1-based, hence the "+ 1".      *)
(***************************************************************************)
EXTENDS Integers, Sequences, FiniteSets, TLC

\* ------------------------------------------------------------------ bounds
MaxUsers == 2        \* largest --users of a burst run
MultiUsers == 2      \* users of a multi run (the source fixes 20, main.rs:1067)
MaxRps == 2          \* largest --rps
MaxDur == 2          \* largest --duration
MaxIssued == 4       \* an rps run issues at most this many requests
MaxPool == 2         \* largest number of lines / urls given to a multi run
MaxTime == 4         \* the clock stops advancing here
FoldLen == 3         \* longest sequence of outcomes folded on its own
SelCallers == 4      \* most tasks calling get_next_config concurrently
SelPool == 3         \* largest pool get_next_config selects from
SeqUsers == 9        \* most users of a Sequential run
MaxBody == 4         \* longest --body string, in characters
RenderLen == 3       \* longest dynamic --body enumerated character by character
RenderDepth == 2     \* deepest nesting of a dynamic JSON --body

\* ------------------------------------------------------- program constants
OneSec == 2                      \* Duration::from_secs(1), in clock units
DurationMax == 2147483647        \* Duration::from_secs(u64::MAX)
DurationZero == 0                \* Duration::from_secs(0) / Duration::ZERO
SampleBurst == 5                 \* .take(5) in simulate_burst
SampleMulti == 10                \* .take(10) in simulate_multiple_urls

\* ------------------------------------------------------------------ inputs
Urls == {"http://a", "https://b", "ftp://x", "not a url"}
FileLines == Urls \cup {"", "# comment"}
HeaderOk == <<"k", ":", "v">>
HeaderBad == <<"k", "v">>
HeaderChoices == { <<HeaderOk>>, <<HeaderBad>>, <<HeaderOk, HeaderBad>> }
Distributions == {"RoundRobin", "Random", "Weighted", "Sequential"}
StatusCodes == {200, 500}
Unreadable == <<"<io error>">>

\* the characters of a --body string
BodyChars == {" ", "1", "Q", "=", "&", "\"", "{", "}", "[", "]"}

\* the base64 text of "hello", a --body longer than MaxBody
Hello64 == <<"a", "G", "V", "s", "b", "G", "8", "=">>
BodyExamples == {Hello64}

\* the placeholders of a dynamic body
UserIdPh == "{{userId}}"
TimestampPh == "{{timestamp}}"
UuidPh == "{{uuid}}"

\* the characters of a dynamic --body, and of the strings and keys of a
\* dynamic JSON --body
RenderChars == {"a", "=", "[", UserIdPh, TimestampPh, UuidPh}
JsonStringChars == {"a", UserIdPh, TimestampPh, UuidPh}
JsonKeys == {<<"a">>, <<UserIdPh>>}

\* dynamic bodies longer than RenderLen: a base64 text, a blank, a form of
\* one pair and a form of two pairs
RenderExamples ==
    { <<"Q", "Q", "Q", "Q">>,
      <<" ">>,
      <<"i", "d", "=", UserIdPh>>,
      <<"a", "=", UuidPh, "&", "b", "=", TimestampPh, "a">> }

\* the user ids and the seconds of Utc::now() a request is rendered with
RenderUsers == {7, 12}
RenderTimes == {5, 42}

\* the statuses and elapsed times of the outcomes folded on their own
FoldCodes == {200, 201, 500}
FoldDurations == {10, 15, 20}

SeqsUpTo(S, n) == UNION { [1..k -> S] : k \in 0..n }

\* ----------------------------------------------------------------- helpers
RECURSIVE SelectSeq2(_, _)
\* Iterator::filter over a sequence of lines
SelectSeq2(s, keep) ==
    IF s = <<>> THEN <<>>
    ELSE IF Head(s) \in keep THEN <<Head(s)>> \o SelectSeq2(Tail(s), keep)
         ELSE SelectSeq2(Tail(s), keep)

\* header.splitn(2, ':') yields two parts exactly when the header has a ':'
HasColon(h) == \E i \in 1..Len(h) : h[i] = ":"

\* RequestConfig::from_cli: Err on the first header without ':'
FromCliOk(headers) == \A i \in 1..Len(headers) : HasColon(headers[i])

\* Url::parse(url).scheme(), "err" when the url does not parse
UrlScheme(u) ==
    CASE u = "http://a" -> "http"
      [] u = "https://b" -> "https"
      [] u = "ftp://x" -> "ftp"
      [] OTHER -> "err"

ValidateUrl(u) == UrlScheme(u) \in {"http", "https"}

ValidateFirst(cfgs) == cfgs = <<>> \/ ValidateUrl(cfgs[1])

\* for config in &tester.configs { validate_url(&config.url)?; }
ValidateAll(cfgs) == \A i \in 1..Len(cfgs) : ValidateUrl(cfgs[i])

\* ------------------------------------------------------------- TestStats
TestStatsNewZeroMin ==
    [total_requests |-> 0, successful |-> 0, failed |-> 0,
     min_duration |-> DurationZero, max_duration |-> DurationZero,
     total_duration |-> 0, avg_duration |-> 0, status_codes |-> <<>>]

\* TestStats::new
TestStatsNew ==
    [total_requests |-> 0, successful |-> 0, failed |-> 0,
     min_duration |-> DurationMax, max_duration |-> DurationZero,
     total_duration |-> 0, avg_duration |-> 0, status_codes |-> <<>>]

\* *self.status_codes.entry(status).or_insert(0) += 1
BumpCode(codes, c) ==
    [k \in DOMAIN codes \cup {c} |->
        IF k = c THEN (IF c \in DOMAIN codes THEN codes[c] ELSE 0) + 1
        ELSE codes[k]]

AddResultDropFailed(s, r) ==
    IF r.success
    THEN [s EXCEPT !.total_requests = @ + 1, !.successful = @ + 1,
                   !.total_duration = @ + r.duration,
                   !.min_duration = IF r.duration < @ THEN r.duration ELSE @,
                   !.max_duration = IF r.duration > @ THEN r.duration ELSE @]
    ELSE s

AddResultCountFailedCode(s, r) ==
    IF r.success THEN AddResultDropFailed(s, r)
    ELSE [s EXCEPT !.total_requests = @ + 1, !.failed = @ + 1,
                   !.status_codes =
                       IF r.status_code # {}
                       THEN BumpCode(@, CHOOSE c \in r.status_code : TRUE)
                       ELSE @]

AddResultLastMin(s, r) ==
    IF r.success
    THEN [s EXCEPT !.total_requests = @ + 1, !.successful = @ + 1,
                   !.status_codes =
                       IF r.status_code # {}
                       THEN BumpCode(@, CHOOSE c \in r.status_code : TRUE)
                       ELSE @,
                   !.total_duration = @ + r.duration,
                   !.min_duration = r.duration,
                   !.max_duration = IF r.duration > @ THEN r.duration ELSE @]
    ELSE [s EXCEPT !.total_requests = @ + 1, !.failed = @ + 1]

\* TestStats::add_result
AddResult(s, r) ==
    LET s1 == [s EXCEPT !.total_requests = @ + 1] IN
    IF r.success
    THEN LET s2 == [s1 EXCEPT !.successful = @ + 1]
             s3 == IF r.status_code # {}
                   THEN [s2 EXCEPT !.status_codes =
                            BumpCode(@, CHOOSE c \in r.status_code : TRUE)]
                   ELSE s2
             s4 == [s3 EXCEPT !.total_duration = @ + r.duration]
             s5 == IF r.duration < s4.min_duration
                   THEN [s4 EXCEPT !.min_duration = r.duration] ELSE s4
         IN  IF r.duration > s5.max_duration
             THEN [s5 EXCEPT !.max_duration = r.duration] ELSE s5
    ELSE [s1 EXCEPT !.failed = @ + 1]

CalculateFinalByTotal(s) ==
    IF s.successful > 0
    THEN [s EXCEPT !.avg_duration = s.total_duration \div s.total_requests]
    ELSE s

CalculateFinalAccumulate(s) ==
    IF s.successful > 0
    THEN [s EXCEPT !.avg_duration = @ + s.total_duration \div s.successful]
    ELSE s

\* TestStats::calculate_final
CalculateFinal(s) ==
    IF s.successful > 0
    THEN [s EXCEPT !.avg_duration = s.total_duration \div s.successful]
    ELSE s

\* the Err(e) arm of the result loops: simulate_rps bumps `failed`,
\* simulate_burst and simulate_multiple_urls only log
JoinErrorStats(mode, s) ==
    IF mode = "rps" THEN [s EXCEPT !.failed = @ + 1] ELSE s

\* ------------------------------------------------- the failed-request list
\* all_results.iter().filter(|r| !r.success).take(n)
FailedOf(results) == SelectSeq(results, LAMBDA r : ~r.success)
Take(s, n) == SubSeq(s, 1, IF Len(s) < n THEN Len(s) ELSE n)

\* the results listed under "Неудачные запросы" once the summary is printed:
\* the first 5 failed ones in simulate_burst, the first 10 in
\* simulate_multiple_urls, none in simulate_rps, which keeps no results
FailedSample(mode, s, results) ==
    CASE mode = "burst" ->
            IF s.failed > 0 THEN Take(FailedOf(results), SampleBurst) ELSE <<>>
      [] mode = "multi" ->
            IF s.failed > 0 THEN Take(FailedOf(results), SampleMulti) ELSE <<>>
      [] OTHER -> <<>>

\* ----------------------------------------------------------- make_request
IsSuccess(code) == code \in 200..299

ResponseResultNoError(user_id, url, duration, code) ==
    [user_id |-> user_id, success |-> IsSuccess(code), duration |-> duration,
     status_code |-> {code}, error |-> {}, url |-> url]

\* the Ok(response) arm of make_request
ResponseResult(user_id, url, duration, code) ==
    [user_id |-> user_id, success |-> IsSuccess(code), duration |-> duration,
     status_code |-> {code},
     error |-> IF IsSuccess(code) THEN {} ELSE {<<"HTTP", code>>},
     url |-> url]

\* the Err(e) arm of make_request
TransportResult(user_id, url, duration) ==
    [user_id |-> user_id, success |-> FALSE, duration |-> duration,
     status_code |-> {}, error |-> {<<"transport">>}, url |-> url]

NoResult == [user_id |-> 0]

\* ------------------------------------------------------------ the gate
GatePermitsNone(rps) == 0

GatePermitsHalf(rps) == rps \div 2

\* Semaphore::new(rps * 2)
GatePermits(rps) == rps * 2

ReleasePermitLeak(p) == p

\* drop(_permit) at the end of the task, on return or on unwind
ReleasePermit(p) == p + 1

\* ------------------------------------------------------- simulate_rps
BatchStartUserRestart(total) == 1

\* let batch_start_user = total_requests + 1
BatchStartUser(total) == total + 1

SleepNever(elapsed) == FALSE

\* if elapsed < Duration::from_secs(1)
SleepNeeded(elapsed) == elapsed < OneSec

\* let sleep_time = Duration::from_secs(1) - elapsed
SleepTime(elapsed) == OneSec - elapsed

\* ------------------------------------------------------ get_next_config
RECURSIVE WeightedScan(_, _, _, _)
\* the accumulate loop of the Weighted arm; every weight is 1
WeightedScan(i, accumulated, random, n) ==
    IF i >= n THEN 0
    ELSE IF random < accumulated + 1 THEN i
         ELSE WeightedScan(i + 1, accumulated + 1, random, n)

FetchAddLost(counter) == IF counter % 2 = 1 THEN counter ELSE counter + 1

\* the value of current_index after fetch_add(1, Ordering::SeqCst)
FetchAdd(counter) == counter + 1

NextConfigIndexHalfStep(dist, user_id, counter, n) ==
    CASE dist = "RoundRobin" -> {(counter \div 2) % n}
      [] dist = "Random"     -> 0..(n - 1)
      [] dist = "Sequential" -> {(user_id - 1) % n}
      [] dist = "Weighted"   -> {WeightedScan(0, 0, random, n) : random \in 0..(n - 1)}

NextConfigIndexByUser(dist, user_id, counter, n) ==
    CASE dist = "RoundRobin" -> {(user_id - 1) % n}
      [] dist = "Random"     -> 0..(n - 1)
      [] dist = "Sequential" -> {(user_id - 1) % n}
      [] dist = "Weighted"   -> {WeightedScan(0, 0, random, n) : random \in 0..(n - 1)}

NextConfigIndexInclusive(dist, user_id, counter, n) ==
    CASE dist = "RoundRobin" -> {counter % n}
      [] dist = "Random"     -> 0..n
      [] dist = "Sequential" -> {(user_id - 1) % n}
      [] dist = "Weighted"   -> {WeightedScan(0, 0, random, n) : random \in 0..(n - 1)}

NextConfigIndexZeroBased(dist, user_id, counter, n) ==
    CASE dist = "RoundRobin" -> {counter % n}
      [] dist = "Random"     -> 0..(n - 1)
      [] dist = "Sequential" -> {user_id % n}
      [] dist = "Weighted"   -> {WeightedScan(0, 0, random, n) : random \in 0..(n - 1)}

\* the indices get_next_config may return, given the counter value it read
NextConfigIndex(dist, user_id, counter, n) ==
    CASE dist = "RoundRobin" -> {counter % n}
      [] dist = "Random"     -> 0..(n - 1)
      [] dist = "Sequential" -> {(user_id - 1) % n}
      [] dist = "Weighted"   -> {WeightedScan(0, 0, random, n) : random \in 0..(n - 1)}

\* ------------------------------------------------------------- parse_body
\* a --body string is a sequence of characters of BodyChars
Contains(s, c) == \E i \in 1..Len(s) : s[i] = c
\* a placeholder is one element of a string; its first character is '{'
Placeholders == {UserIdPh, TimestampPh, UuidPh}
FirstChar(e) == IF e \in Placeholders THEN "{" ELSE e
StartsWith(s, c) == Len(s) > 0 /\ FirstChar(s[1]) = c
Find(s, c) == CHOOSE i \in 1..Len(s) : s[i] = c /\ \A j \in 1..(i - 1) : s[j] # c

\* str::trim
RECURSIVE Trim(_)
Trim(s) ==
    IF s = <<>> THEN s
    ELSE IF s[1] = " " THEN Trim(Tail(s))
    ELSE IF s[Len(s)] = " " THEN Trim(SubSeq(s, 1, Len(s) - 1))
    ELSE s

\* str::split(c)
RECURSIVE Split(_, _)
Split(s, c) ==
    IF ~Contains(s, c) THEN <<s>>
    ELSE <<SubSeq(s, 1, Find(s, c) - 1)>>
         \o Split(SubSeq(s, Find(s, c) + 1, Len(s)), c)

\* the decimal digits and the number a string of digits denotes
DigitChars == <<"0", "1", "2", "3", "4", "5", "6", "7", "8", "9">>
IsDigit(c) == \E i \in 1..Len(DigitChars) : DigitChars[i] = c
DigitValue(c) == (CHOOSE i \in 1..Len(DigitChars) : DigitChars[i] = c) - 1

RECURSIVE Decimal(_)
Decimal(s) ==
    IF s = <<>> THEN 0
    ELSE 10 * Decimal(SubSeq(s, 1, Len(s) - 1)) + DigitValue(s[Len(s)])

\* a JSON integer without its sign: digits, no leading zero
IsJsonDigits(s) ==
    /\ s # <<>>
    /\ \A i \in 1..Len(s) : IsDigit(s[i])
    /\ Len(s) > 1 => s[1] # "0"

\* the position of the quote closing the string that opens at s[1]
ClosingQuote(s) ==
    CHOOSE j \in 2..Len(s) : s[j] = "\"" /\ \A i \in 2..(j - 1) : s[i] # "\""

\* serde_json::from_str::<Value> on a string without surrounding whitespace:
\* the set holding the parsed Value, empty when the parse fails. The
\* strings of the model hold no comma, backslash, point or exponent, so a
\* document is an integer, a string, or an object or array of at most one
\* member
RECURSIVE JsonValue(_)
JsonValue(s) ==
    IF s = <<>> THEN {}
    ELSE IF IsJsonDigits(s)
    THEN {[t |-> "number", v |-> Decimal(s)]}
    ELSE IF s[1] = "-" /\ IsJsonDigits(Tail(s))
    THEN {[t |-> "number", v |-> 0 - Decimal(Tail(s))]}
    ELSE IF Len(s) >= 2 /\ s[1] = "\"" /\ s[Len(s)] = "\""
    THEN IF Contains(SubSeq(s, 2, Len(s) - 1), "\"") THEN {}
         ELSE {[t |-> "string", v |-> SubSeq(s, 2, Len(s) - 1)]}
    ELSE IF Len(s) >= 2 /\ s[1] = "{" /\ s[Len(s)] = "}"
    THEN LET inner == Trim(SubSeq(s, 2, Len(s) - 1)) IN
         IF inner = <<>> THEN {[t |-> "object", v |-> <<>>]}
         ELSE IF inner[1] = "\"" /\ Contains(Tail(inner), "\"")
         THEN LET j == ClosingQuote(inner)
                  rest == Trim(SubSeq(inner, j + 1, Len(inner)))
              IN  IF rest # <<>> /\ rest[1] = ":"
                  THEN {[t |-> "object",
                         v |-> <<[k |-> SubSeq(inner, 2, j - 1), val |-> e]>>] :
                            e \in JsonValue(Trim(Tail(rest)))}
                  ELSE {}
         ELSE {}
    ELSE IF Len(s) >= 2 /\ s[1] = "[" /\ s[Len(s)] = "]"
    THEN IF Trim(SubSeq(s, 2, Len(s) - 1)) = <<>>
         THEN {[t |-> "array", v |-> <<>>]}
         ELSE {[t |-> "array", v |-> <<e>>] :
                  e \in JsonValue(Trim(SubSeq(s, 2, Len(s) - 1)))}
    ELSE {}

\* serde_json::from_str::<Value>(body_str)
JsonParse(s) == JsonValue(Trim(s))

\* the pairs of `for pair in body_str.split('&')` that splitn(2, '=') cuts
\* in two
FormPairs(s) ==
    SelectSeq(Split(s, "&"), LAMBDA pair : Contains(pair, "="))
FormKey(pair) == SubSeq(pair, 1, Find(pair, "=") - 1)
FormValue(pair) == SubSeq(pair, Find(pair, "=") + 1, Len(pair))

\* form_data after the loop: a later insert of a key replaces the earlier
FormData(s) ==
    LET pairs == FormPairs(s)
        last(k) == CHOOSE i \in 1..Len(pairs) :
                       /\ FormKey(pairs[i]) = k
                       /\ \A j \in (i + 1)..Len(pairs) : FormKey(pairs[j]) # k
    IN  [k \in {FormKey(pairs[i]) : i \in 1..Len(pairs)} |->
            FormValue(pairs[last(k)])]

\* the 6-bit value of a character of the standard base64 alphabet
Base64Alphabet ==
    <<"A", "B", "C", "D", "E", "F", "G", "H", "I", "J", "K", "L", "M",
      "N", "O", "P", "Q", "R", "S", "T", "U", "V", "W", "X", "Y", "Z",
      "a", "b", "c", "d", "e", "f", "g", "h", "i", "j", "k", "l", "m",
      "n", "o", "p", "q", "r", "s", "t", "u", "v", "w", "x", "y", "z",
      "0", "1", "2", "3", "4", "5", "6", "7", "8", "9", "+", "/">>
IsBase64Char(c) == \E i \in 1..Len(Base64Alphabet) : Base64Alphabet[i] = c
Base64Value(c) ==
    (CHOOSE i \in 1..Len(Base64Alphabet) : Base64Alphabet[i] = c) - 1

\* the bytes of one group of four characters, the last group possibly padded
QuadBytes(q) ==
    LET v(i) == Base64Value(q[i])
        b1 == v(1) * 4 + v(2) \div 16
        b2 == (v(2) % 16) * 16 + v(3) \div 4
        b3 == (v(3) % 4) * 64 + v(4)
    IN  IF q[3] = "=" THEN <<b1>>
        ELSE IF q[4] = "=" THEN <<b1, b2>>
        ELSE <<b1, b2, b3>>

\* a group the STANDARD engine accepts: four alphabet characters, or as the
\* last group two or three of them with canonical padding and zero
\* trailing bits
QuadOk(q, isLast) ==
    /\ IsBase64Char(q[1]) /\ IsBase64Char(q[2])
    /\ \/ IsBase64Char(q[3]) /\ IsBase64Char(q[4])
       \/ /\ isLast /\ IsBase64Char(q[3]) /\ q[4] = "="
          /\ Base64Value(q[3]) % 4 = 0
       \/ /\ isLast /\ q[3] = "=" /\ q[4] = "="
          /\ Base64Value(q[2]) % 16 = 0

RECURSIVE Base64Bytes(_)
Base64Bytes(s) ==
    IF s = <<>> THEN <<>>
    ELSE QuadBytes(SubSeq(s, 1, 4)) \o Base64Bytes(SubSeq(s, 5, Len(s)))

\* general_purpose::STANDARD.decode(body_str): the set holding the decoded
\* bytes, empty when the decoding fails
Base64Decode(s) ==
    IF /\ Len(s) % 4 = 0
       /\ \A g \in 1..(Len(s) \div 4) :
             QuadOk(SubSeq(s, 4 * g - 3, 4 * g), 4 * g = Len(s))
    THEN {Base64Bytes(s)}
    ELSE {}

BodyNone == [kind |-> "None"]

\* make_request has not been entered
NoRequest == [user_id |-> 0]

ParseBodyBinaryFirst(body_str) ==
    IF Trim(body_str) = <<>> THEN BodyNone
    ELSE IF JsonParse(body_str) # {}
    THEN [kind |-> "Json", json |-> CHOOSE v \in JsonParse(body_str) : TRUE]
    ELSE IF Base64Decode(body_str) # {}
    THEN [kind |-> "Binary",
          bytes |-> CHOOSE b \in Base64Decode(body_str) : TRUE]
    ELSE IF /\ Contains(body_str, "=")
            /\ ~StartsWith(body_str, "{") /\ ~StartsWith(body_str, "[")
            /\ DOMAIN FormData(body_str) # {}
    THEN [kind |-> "Form", form |-> FormData(body_str)]
    ELSE [kind |-> "Text", text |-> body_str]

\* parse_body: every return is Ok(..)
ParseBody(body_str) ==
    IF Trim(body_str) = <<>> THEN BodyNone
    ELSE IF JsonParse(body_str) # {}
    THEN [kind |-> "Json", json |-> CHOOSE v \in JsonParse(body_str) : TRUE]
    ELSE IF /\ Contains(body_str, "=")
            /\ ~StartsWith(body_str, "{") /\ ~StartsWith(body_str, "[")
            /\ DOMAIN FormData(body_str) # {}
    THEN [kind |-> "Form", form |-> FormData(body_str)]
    ELSE IF Base64Decode(body_str) # {}
    THEN [kind |-> "Binary",
          bytes |-> CHOOSE b \in Base64Decode(body_str) : TRUE]
    ELSE [kind |-> "Text", text |-> body_str]

\* ----------------------------------------------------- prepare_dynamic_body
\* usize::to_string
RECURSIVE Digits(_)
Digits(n) ==
    IF n < 10 THEN <<DigitChars[n + 1]>>
    ELSE Digits(n \div 10) \o <<DigitChars[(n % 10) + 1]>>

\* DateTime<Utc>::to_rfc3339 of the instant `secs` seconds (below 60) after
\* the epoch
Rfc3339(secs) ==
    <<"1", "9", "7", "0", "-", "0", "1", "-", "0", "1", "T",
      "0", "0", ":", "0", "0", ":">>
    \o <<DigitChars[(secs \div 10) + 1], DigitChars[(secs % 10) + 1]>>
    \o <<"+", "0", "0", ":", "0", "0">>

\* Uuid::to_string of the version 4 uuid whose random hex digits are all h
UuidText(h) ==
    [i \in 1..36 |->
        IF i \in {9, 14, 19, 24} THEN "-"
        ELSE IF i = 15 THEN "4"
        ELSE IF i = 20 THEN "8"
        ELSE h]

\* str::replace(pat, rep): every non-overlapping match, from the left
RECURSIVE Replace(_, _, _)
Replace(s, pat, rep) ==
    IF Len(s) < Len(pat) THEN s
    ELSE IF SubSeq(s, 1, Len(pat)) = pat
    THEN rep \o Replace(SubSeq(s, Len(pat) + 1, Len(s)), pat, rep)
    ELSE <<s[1]>> \o Replace(Tail(s), pat, rep)

Quoted(s) == <<"\"">> \o s \o <<"\"">>

\* Value::to_string: the compact serialization
RECURSIVE JsonToString(_)
JsonToString(v) ==
    CASE v.t = "number" ->
            IF v.v < 0 THEN <<"-">> \o Digits(0 - v.v) ELSE Digits(v.v)
      [] v.t = "string" -> Quoted(v.v)
      [] v.t = "array" ->
            IF v.v = <<>> THEN <<"[", "]">>
            ELSE <<"[">> \o JsonToString(v.v[1]) \o <<"]">>
      [] v.t = "object" ->
            IF v.v = <<>> THEN <<"{", "}">>
            ELSE <<"{">> \o Quoted(v.v[1].k) \o <<":">>
                 \o JsonToString(v.v[1].val) \o <<"}">>

\* the Text arm: the three replace calls
RenderText(text, user_id, timestamp, uuid) ==
    Replace(Replace(Replace(text, <<UserIdPh>>, Digits(user_id)),
                    <<TimestampPh>>, Rfc3339(timestamp)),
            <<UuidPh>>, uuid)

\* the Json arm: the four replace calls on json_value.to_string()
RenderJsonText(json_str, user_id, timestamp, uuid) ==
    Replace(Replace(Replace(Replace(json_str,
                                    Quoted(<<UserIdPh>>), Digits(user_id)),
                            <<UserIdPh>>, Digits(user_id)),
                    <<TimestampPh>>, Quoted(Rfc3339(timestamp))),
            <<UuidPh>>, Quoted(uuid))

\* the Form arm: the two replace calls on a value
RenderFormValue(value, user_id, timestamp) ==
    Replace(Replace(value, <<UserIdPh>>, Digits(user_id)),
            <<TimestampPh>>, Rfc3339(timestamp))

PrepareDynamicBodyKeepJson(b, user_id, timestamp, uuid) ==
    CASE b.kind = "Text" ->
            [kind |-> "Text",
             text |-> RenderText(b.text, user_id, timestamp, uuid)]
      [] b.kind = "Json" ->
            LET replaced == RenderJsonText(JsonToString(b.json), user_id,
                                           timestamp, uuid)
            IN  IF JsonParse(replaced) # {}
                THEN [kind |-> "Json",
                      json |-> CHOOSE v \in JsonParse(replaced) : TRUE]
                ELSE b
      [] b.kind = "Form" ->
            [kind |-> "Form",
             form |-> [k \in DOMAIN b.form |->
                          RenderFormValue(b.form[k], user_id, timestamp)]]
      [] OTHER -> b

\* prepare_dynamic_body; uuid is the text of the Uuid::new_v4() it draws
PrepareDynamicBody(b, user_id, timestamp, uuid) ==
    CASE b.kind = "Text" ->
            [kind |-> "Text",
             text |-> RenderText(b.text, user_id, timestamp, uuid)]
      [] b.kind = "Json" ->
            LET replaced == RenderJsonText(JsonToString(b.json), user_id,
                                           timestamp, uuid)
            IN  IF JsonParse(replaced) # {}
                THEN [kind |-> "Json",
                      json |-> CHOOSE v \in JsonParse(replaced) : TRUE]
                ELSE [kind |-> "Text", text |-> replaced]
      [] b.kind = "Form" ->
            [kind |-> "Form",
             form |-> [k \in DOMAIN b.form |->
                          RenderFormValue(b.form[k], user_id, timestamp)]]
      [] OTHER -> b

\* ------------------------------------------------------------------ state
VARIABLES
    cli,            \* the parsed command line (Commands::Burst / Rps / Multi)
    pc,             \* position of the main task
    configs,        \* the RequestConfig pool, by url (tester.configs / config)
    now,            \* the clock
    second,         \* simulate_rps: loop variable `second`
    second_start,   \* simulate_rps: second_start
    wake,           \* simulate_rps: deadline of tokio::time::sleep
    total_requests, \* simulate_rps: the local total_requests
    batch_start_user, \* simulate_rps: batch_start_user
    spawn_i,        \* number of tasks spawned by the current spawn loop
    batch,          \* tasks / batch_tasks: the JoinHandles, as task numbers
    tasks,          \* every task spawned so far, in spawn order
    permits,        \* free permits of the semaphore
    current_index,  \* MultiUrlTester::current_index
    stats,          \* stats / global_stats
    all_results,    \* all_results (burst and multi)
    fold_i,         \* number of join results consumed by the result loop
    ticks,          \* history: per tick its start, elapsed time and whether it slept
    join_errors,    \* number of "Ошибка в задаче" lines written to stderr
    body,           \* the BodyType parse_body returned
    request,        \* make_request's user_id, timestamp and rendered body
    failed_sample   \* the failed results listed after the summary

vars == <<cli, pc, configs, now, second, second_start, wake, total_requests,
          batch_start_user, spawn_i, batch, tasks, permits, current_index, stats, all_results,
          fold_i, ticks, join_errors, body, request,
          failed_sample>>

CliBurst ==
    [mode : {"burst"}, users : 0..MaxUsers, rps : {0}, duration : {0},
     headers : HeaderChoices, validate_url : BOOLEAN,
     source : {"url"}, lines : {<<u>> : u \in Urls},
     distribution : {"RoundRobin"}]

CliRps ==
    { c \in [mode : {"rps"}, users : {0}, rps : 0..MaxRps, duration : 0..MaxDur,
             headers : HeaderChoices, validate_url : BOOLEAN,
             source : {"url"}, lines : {<<u>> : u \in Urls},
             distribution : {"RoundRobin"}] :
        c.rps * c.duration <= MaxIssued }

CliMulti ==
    [mode : {"multi"}, users : {0}, rps : {0}, duration : {0},
     headers : HeaderChoices, validate_url : BOOLEAN,
     source : {"file"}, lines : SeqsUpTo(FileLines, MaxPool) \cup {Unreadable},
     distribution : Distributions]
    \cup
    [mode : {"multi"}, users : {0}, rps : {0}, duration : {0},
     headers : HeaderChoices, validate_url : BOOLEAN,
     source : {"list"}, lines : SeqsUpTo(Urls, MaxPool),
     distribution : Distributions]
    \cup
    [mode : {"multi"}, users : {0}, rps : {0}, duration : {0},
     headers : HeaderChoices, validate_url : BOOLEAN,
     source : {"none"}, lines : {<<>>},
     distribution : Distributions]

Init ==
    /\ cli \in CliBurst \cup CliRps \cup CliMulti
    /\ pc = "main"
    /\ configs = <<>>
    /\ now = 0
    /\ second = 0
    /\ second_start = 0
    /\ wake = 0
    /\ total_requests = 0
    /\ batch_start_user = 0
    /\ spawn_i = 0
    /\ batch = <<>>
    /\ tasks = <<>>
    /\ permits = 0
    /\ current_index = 0
    /\ stats = TestStatsNew
    /\ all_results = <<>>
    /\ fold_i = 0
    /\ ticks = <<>>
    /\ join_errors = 0
    /\ body = BodyNone
    /\ request = NoRequest
    /\ failed_sample = <<>>

\* --------------------------------------------------- main / configuration
\* load_configs_from_file: the lines kept by the filter
FileUrls(lines) == SelectSeq2(lines, Urls)

\* the pool handle_multi_command builds, or <<"error">> when it returns Err
\* before the pool exists
MultiConfigs(c) ==
    CASE c.source = "file" ->
            IF c.lines = Unreadable \/ FileUrls(c.lines) = <<>>
               \/ ~FromCliOk(c.headers)
            THEN <<"error">> ELSE FileUrls(c.lines)
      [] c.source = "list" ->
            IF c.lines # <<>> /\ ~FromCliOk(c.headers)
            THEN <<"error">> ELSE c.lines
      [] OTHER -> <<"error">>

\* the command once its strings have been moved into the RequestConfigs
Moved(c) == [c EXCEPT !.lines = <<>>, !.headers = <<>>]

\* main: RequestConfig::from_cli for burst and rps, handle_multi_command up
\* to the call of simulate_multiple_urls for multi
Main ==
    /\ pc = "main"
    /\ IF cli.mode = "multi"
       THEN LET cfgs == MultiConfigs(cli) IN
            IF cfgs = <<"error">> \/ cfgs = <<>>
            THEN pc' = "error" /\ UNCHANGED <<cli, configs, body,
                   request, failed_sample>>
            ELSE pc' = "validate" /\ configs' = cfgs /\ cli' = Moved(cli)
       ELSE IF FromCliOk(cli.headers)
            THEN pc' = "validate" /\ configs' = cli.lines /\ cli' = Moved(cli)
            ELSE pc' = "error" /\ UNCHANGED <<cli, configs, body,
                   request, failed_sample>>
    /\ UNCHANGED <<now, second, second_start, wake, total_requests,
                   spawn_i, batch, tasks, permits, current_index, stats,
                   all_results, fold_i, ticks, join_errors,
                   batch_start_user, body,
                   request, failed_sample>>

\* number of tasks one spawn loop creates
Quota ==
    CASE cli.mode = "burst" -> cli.users
      [] cli.mode = "rps"   -> cli.rps
      [] OTHER              -> MultiUsers

\* where the main task is once `i` of the quota's tasks are spawned
AfterSpawn(i) == IF i < Quota THEN "spawn" ELSE "join"

\* the head of simulate_burst / simulate_rps / simulate_multiple_urls: url
\* validation, Client::new, Semaphore::new, TestStats::new
Validate ==
    /\ pc = "validate"
    /\ IF cli.validate_url /\ ~ValidateAll(configs)
       THEN pc' = "error" /\ UNCHANGED permits
       ELSE /\ pc' = IF cli.mode = "rps"
                     THEN (IF 0 < cli.duration THEN "tick" ELSE "final")
                     ELSE AfterSpawn(0)
            /\ permits' = IF cli.mode = "rps" THEN GatePermits(cli.rps) ELSE permits
    /\ UNCHANGED <<cli, configs, now, second, second_start, wake,
                   total_requests, spawn_i, batch, tasks, current_index,
                   stats, all_results, fold_i, ticks, join_errors,
                   batch_start_user, body,
                   request, failed_sample>>

\* ------------------------------------------------------------ spawn loops
\* simulate_rps: the head of one iteration of `for second in 0..duration_secs`
TickBegin ==
    /\ pc = "tick"
    /\ second_start' = now
    /\ batch_start_user' = BatchStartUser(total_requests)
    /\ spawn_i' = 0
    /\ batch' = <<>>
    /\ ticks' = Append(ticks, [start |-> now, elapsed |-> 0, slept |-> FALSE])
    /\ pc' = AfterSpawn(0)
    /\ UNCHANGED <<cli, configs, now, second, wake, total_requests, tasks,
                   permits, current_index, stats, all_results, fold_i, join_errors,
                   body,
                   request, failed_sample>>

\* the user id the spawn loop gives its next task: batch_start_user + i in
\* simulate_rps, the element of 1..=users otherwise
NextUserId ==
    IF cli.mode = "rps"
    THEN batch_start_user + spawn_i
    ELSE spawn_i + 1

\* one tokio::spawn of the spawn loop (and total_requests += 1 in simulate_rps)
SpawnOne ==
    /\ pc = "spawn"
    /\ spawn_i < Quota
    /\ tasks' = Append(tasks, [user_id |-> NextUserId, tick |-> second + 1,
                               st |-> "spawned", cfg |-> 0, seen |-> {},
                               start |-> 0, result |-> NoResult])
    /\ batch' = Append(batch, Len(tasks) + 1)
    /\ total_requests' = IF cli.mode = "rps" THEN total_requests + 1
                         ELSE total_requests
    /\ spawn_i' = spawn_i + 1
    /\ pc' = AfterSpawn(spawn_i + 1)
    /\ UNCHANGED <<cli, configs, now, second, second_start, wake, permits,
                   current_index, stats, all_results, fold_i, ticks, join_errors,
                   batch_start_user, body,
                   request, failed_sample>>

\* ------------------------------------------------------------------ tasks
\* simulate_multiple_urls: tester.get_next_config(user_id) inside the task;
\* `seen` is the value fetch_add returned to this caller
TaskSelect(t) ==
    /\ cli.mode = "multi"
    /\ tasks[t].st = "spawned"
    /\ \E idx \in NextConfigIndex(cli.distribution, tasks[t].user_id,
                                   current_index, Len(configs)) :
          tasks' = [tasks EXCEPT ![t].st = "selected", ![t].cfg = idx,
                       ![t].seen = IF cli.distribution = "RoundRobin"
                                   THEN {current_index} ELSE {}]
    /\ current_index' = IF cli.distribution = "RoundRobin"
                        THEN FetchAdd(current_index) ELSE current_index
    /\ UNCHANGED <<cli, pc, configs, now, second, second_start, wake,
                   total_requests, spawn_i, batch, permits, stats,
                   all_results, fold_i, ticks, join_errors,
                   batch_start_user, body,
                   request, failed_sample>>

\* the task enters make_request (start_time = Instant::now()); in simulate_rps
\* only once semaphore.acquire() has handed it a permit
TaskStart(t) ==
    /\ tasks[t].st = IF cli.mode = "multi" THEN "selected" ELSE "spawned"
    /\ IF cli.mode = "rps"
       THEN permits > 0 /\ permits' = permits - 1
       ELSE UNCHANGED permits
    /\ tasks' = [tasks EXCEPT ![t].st = "running", ![t].start = now]
    /\ UNCHANGED <<cli, pc, configs, now, second, second_start, wake,
                   total_requests, spawn_i, batch, current_index, stats,
                   all_results, fold_i, ticks, join_errors,
                   batch_start_user, body,
                   request, failed_sample>>

\* the permit count after a task of this run has ended
AfterTask(p) == IF cli.mode = "rps" THEN ReleasePermit(p) ELSE p

\* request_builder.send().await returns and make_request builds its result
TaskComplete(t) ==
    /\ tasks[t].st = "running"
    /\ LET user == tasks[t].user_id
           url == configs[tasks[t].cfg + 1]
           duration == now - tasks[t].start
       IN  \/ \E code \in StatusCodes :
                tasks' = [tasks EXCEPT ![t].st = "done", ![t].start = 0,
                            ![t].result = ResponseResult(user, url, duration, code)]
           \/ tasks' = [tasks EXCEPT ![t].st = "done", ![t].start = 0,
                            ![t].result = TransportResult(user, url, duration)]
    /\ permits' = AfterTask(permits)
    /\ UNCHANGED <<cli, pc, configs, now, second, second_start, wake,
                   total_requests, spawn_i, batch, current_index, stats,
                   all_results, fold_i, ticks, join_errors,
                   batch_start_user, body,
                   request, failed_sample>>

\* the task panics inside make_request: its JoinHandle yields Err(JoinError)
TaskPanic(t) ==
    /\ tasks[t].st = "running"
    /\ tasks' = [tasks EXCEPT ![t].st = "panicked", ![t].start = 0]
    /\ permits' = AfterTask(permits)
    /\ UNCHANGED <<cli, pc, configs, now, second, second_start, wake,
                   total_requests, spawn_i, batch, current_index, stats,
                   all_results, fold_i, ticks, join_errors,
                   batch_start_user, body,
                   request, failed_sample>>

\* --------------------------------------------------------- join and fold
FinishedOrRunning(t) == tasks[t].st \in {"done", "panicked", "running"}

\* the JoinHandle of task t is ready: the task returned or panicked
Finished(t) == tasks[t].st \in {"done", "panicked"}

AnyJoined(b) == b = <<>> \/ \E k \in 1..Len(b) : Finished(b[k])

\* join_all(tasks).await is ready
AllJoined(b) == \A k \in 1..Len(b) : Finished(b[k])

\* where the main task goes once `i` results of the batch are consumed
AfterFold(i) ==
    IF i < Len(batch) THEN "fold"
    ELSE IF cli.mode = "rps" THEN "pace" ELSE "final"

\* join_all(...).await returns
JoinAll ==
    /\ pc = "join"
    /\ AllJoined(batch)
    /\ fold_i' = 0
    /\ pc' = AfterFold(0)
    /\ UNCHANGED <<cli, configs, now, second, second_start, wake,
                   total_requests, spawn_i, batch, tasks, permits,
                   current_index, stats, all_results, ticks, join_errors,
                   batch_start_user, body,
                   request, failed_sample>>

\* one iteration of `for result in results`: the result is moved out of the
\* joined vector, folded, and kept in all_results (burst, multi) or dropped
FoldOne ==
    /\ pc = "fold"
    /\ fold_i < Len(batch)
    /\ LET t == tasks[batch[fold_i + 1]] IN
       IF t.st = "done"
       THEN /\ stats' = AddResult(stats, t.result)
            /\ all_results' = IF cli.mode = "rps" THEN all_results
                              ELSE Append(all_results, t.result)
            /\ UNCHANGED join_errors
       ELSE /\ stats' = JoinErrorStats(cli.mode, stats)
            /\ join_errors' = join_errors + 1
            /\ UNCHANGED all_results
    /\ tasks' = [tasks EXCEPT ![batch[fold_i + 1]].st = "joined",
                               ![batch[fold_i + 1]].result = NoResult]
    /\ fold_i' = fold_i + 1
    /\ pc' = AfterFold(fold_i + 1)
    /\ UNCHANGED <<cli, configs, now, second, second_start, wake,
                   total_requests, spawn_i, batch, permits, current_index,
                   ticks,
                   batch_start_user, body,
                   request, failed_sample>>

\* ----------------------------------------------------------------- pacing
\* where the main task goes at the end of an iteration of the tick loop
AfterTick == IF second + 1 < cli.duration THEN "tick" ELSE "final"

\* simulate_rps: let elapsed = second_start.elapsed(); sleep if under a second
Pace ==
    /\ pc = "pace"
    /\ LET elapsed == now - second_start IN
       IF SleepNeeded(elapsed)
       THEN /\ wake' = now + SleepTime(elapsed)
            /\ pc' = "sleep"
            /\ ticks' = [ticks EXCEPT ![Len(ticks)].elapsed = elapsed,
                                      ![Len(ticks)].slept = TRUE]
            /\ UNCHANGED second
       ELSE /\ pc' = AfterTick
            /\ second' = second + 1
            /\ ticks' = [ticks EXCEPT ![Len(ticks)].elapsed = elapsed]
            /\ UNCHANGED wake
    /\ UNCHANGED <<cli, configs, now, second_start, total_requests, spawn_i,
                   batch, tasks, permits, current_index, stats, all_results,
                   fold_i, join_errors,
                   batch_start_user, body,
                   request, failed_sample>>

\* tokio::time::sleep(sleep_time).await returns, not before its deadline
Wake ==
    /\ pc = "sleep"
    /\ now >= wake
    /\ pc' = AfterTick
    /\ second' = second + 1
    /\ UNCHANGED <<cli, configs, now, second_start, wake, total_requests,
                   spawn_i, batch, tasks, permits, current_index, stats,
                   all_results, fold_i, ticks, join_errors,
                   batch_start_user, body,
                   request, failed_sample>>

\* stats.calculate_final() and the summary
Finalize ==
    /\ pc = "final"
    /\ stats' = CalculateFinal(stats)
    /\ failed_sample' = FailedSample(cli.mode, stats, all_results)
    /\ pc' = "done"
    /\ UNCHANGED <<cli, configs, now, second, second_start, wake,
                   total_requests, spawn_i, batch, tasks, permits,
                   current_index, all_results, fold_i, ticks, join_errors,
                   batch_start_user, body, request>>

\* time passes while a request is on the wire or the main task sleeps
Advance ==
    /\ \/ pc = "sleep" /\ (now < wake \/ now < MaxTime)
       \/ (\E t \in 1..Len(tasks) : tasks[t].st = "running") /\ now < MaxTime
    /\ now' = now + 1
    /\ UNCHANGED <<cli, pc, configs, second, second_start, wake,
                   total_requests, spawn_i, batch, tasks, permits,
                   current_index, stats, all_results, fold_i, ticks, join_errors,
                   batch_start_user, body,
                   request, failed_sample>>

Next ==
    \/ Main
    \/ Validate
    \/ TickBegin
    \/ SpawnOne
    \/ \E t \in 1..Len(tasks) : TaskSelect(t)
    \/ \E t \in 1..Len(tasks) : TaskStart(t)
    \/ \E t \in 1..Len(tasks) : TaskComplete(t)
    \/ \E t \in 1..Len(tasks) : TaskPanic(t)
    \/ JoinAll
    \/ FoldOne
    \/ Pace
    \/ Wake
    \/ Finalize
    \/ Advance

Spec == Init /\ [][Next]_vars

\* ------------------------------------------ one command at a time
InitBurst == Init /\ cli.mode = "burst"

NextBurst ==
    \/ Main
    \/ Validate
    \/ SpawnOne
    \/ \E t \in 1..Len(tasks) : TaskStart(t)
    \/ \E t \in 1..Len(tasks) : TaskComplete(t)
    \/ \E t \in 1..Len(tasks) : TaskPanic(t)
    \/ JoinAll
    \/ FoldOne
    \/ Finalize
    \/ Advance

SpecBurst == InitBurst /\ [][NextBurst]_vars

InitRps == Init /\ cli.mode = "rps"

NextRps ==
    \/ Main
    \/ Validate
    \/ TickBegin
    \/ SpawnOne
    \/ \E t \in 1..Len(tasks) : TaskStart(t)
    \/ \E t \in 1..Len(tasks) : TaskComplete(t)
    \/ \E t \in 1..Len(tasks) : TaskPanic(t)
    \/ JoinAll
    \/ FoldOne
    \/ Pace
    \/ Wake
    \/ Finalize
    \/ Advance

SpecRps == InitRps /\ [][NextRps]_vars

\* the steps of the main task of an rps run
MainTaskRps ==
    \/ Main
    \/ Validate
    \/ TickBegin
    \/ SpawnOne
    \/ JoinAll
    \/ FoldOne
    \/ Pace
    \/ Wake
    \/ Finalize

\* the runtime keeps polling the main task and the spawned tasks, a request
\* that was sent returns or times out, and time passes
FairRps ==
    /\ WF_vars(MainTaskRps)
    /\ WF_vars(\E t \in 1..Len(tasks) : TaskStart(t))
    /\ WF_vars(\E t \in 1..Len(tasks) : TaskComplete(t))
    /\ WF_vars(Advance)

LiveSpecRps == InitRps /\ [][NextRps]_vars /\ FairRps

\* ------------------------------------------- the statistics on their own
\* TestStats::add_result and TestStats::calculate_final applied to every
\* sequence of up to FoldLen outcomes, as the result loop of simulate_burst
\* applies them to the batch join_all returned

\* the outcomes make_request can return, before the user id is filled in
FoldOutcomes ==
    { ResponseResult(0, "http://a", d, c) : d \in FoldDurations, c \in FoldCodes }
    \cup { TransportResult(0, "http://a", d) : d \in FoldDurations }

\* a batch of completed tasks carrying the outcomes outs
DoneTasks(outs) ==
    [i \in 1..Len(outs) |->
        [user_id |-> i, tick |-> 1, st |-> "done", cfg |-> 0, seen |-> {},
         start |-> 0, result |-> [outs[i] EXCEPT !.user_id = i]]]

InitFold ==
    /\ \E outs \in SeqsUpTo(FoldOutcomes, FoldLen) :
          /\ cli = [mode |-> "burst", users |-> Len(outs), rps |-> 0,
                    duration |-> 0, headers |-> <<>>, validate_url |-> FALSE,
                    source |-> "url", lines |-> <<>>,
                    distribution |-> "RoundRobin"]
          /\ tasks = DoneTasks(outs)
          /\ batch = [i \in 1..Len(outs) |-> i]
          /\ pc = IF Len(outs) > 0 THEN "fold" ELSE "final"
    /\ configs = <<"http://a">>
    /\ now = 0
    /\ second = 0
    /\ second_start = 0
    /\ wake = 0
    /\ total_requests = 0
    /\ batch_start_user = 0
    /\ spawn_i = Len(tasks)
    /\ permits = 0
    /\ current_index = 0
    /\ stats = TestStatsNew
    /\ all_results = <<>>
    /\ fold_i = 0
    /\ ticks = <<>>
    /\ join_errors = 0
    /\ body = BodyNone
    /\ request = NoRequest
    /\ failed_sample = <<>>

\* stats.calculate_final() called once more on the finalized statistics
CalculateFinalAgain ==
    /\ pc = "done"
    /\ cli.mode = "burst"
    /\ stats' = CalculateFinal(stats)
    /\ pc' = "done2"
    /\ UNCHANGED <<cli, configs, now, second, second_start, wake,
                   total_requests, spawn_i, batch, tasks, permits,
                   current_index, all_results, fold_i, ticks, join_errors,
                   batch_start_user, body,
                   request, failed_sample>>

NextFold ==
    \/ FoldOne
    \/ Finalize
    \/ CalculateFinalAgain

SpecFold == InitFold /\ [][NextFold]_vars

\* ------------------------------------------- target selection on its own
\* the tasks simulate_multiple_urls spawned for the users 1..n, none of
\* which has run yet
SpawnedTasks(n) ==
    [i \in 1..n |->
        [user_id |-> i, tick |-> 1, st |-> "spawned", cfg |-> 0, seen |-> {},
         start |-> 0, result |-> NoResult]]

\* a pool of n targets
PoolOf(n) == [i \in 1..n |-> IF i % 2 = 1 THEN "http://a" ELSE "https://b"]

\* simulate_multiple_urls once (1..=users).map(..).collect() has spawned
\* every task: the main task awaits join_all, the tasks call
\* get_next_config and make_request in any order
InitSelect ==
    /\ \E d \in Distributions, n \in 1..SelPool :
          /\ cli = [mode |-> "multi", users |-> 0, rps |-> 0,
                    duration |-> 0, headers |-> <<>>, validate_url |-> FALSE,
                    source |-> "list", lines |-> <<>>, distribution |-> d]
          /\ configs = PoolOf(n)
          /\ \E users \in 0..(IF d = "Sequential" THEN SeqUsers ELSE SelCallers) :
                /\ tasks = SpawnedTasks(users)
                /\ batch = [i \in 1..users |-> i]
    /\ pc = "join"
    /\ now = 0
    /\ second = 0
    /\ second_start = 0
    /\ wake = 0
    /\ total_requests = 0
    /\ batch_start_user = 0
    /\ spawn_i = Len(tasks)
    /\ permits = 0
    /\ current_index = 0
    /\ stats = TestStatsNew
    /\ all_results = <<>>
    /\ fold_i = 0
    /\ ticks = <<>>
    /\ join_errors = 0
    /\ body = BodyNone
    /\ request = NoRequest
    /\ failed_sample = <<>>

NextSelect ==
    \/ \E t \in 1..Len(tasks) : TaskSelect(t)
    \/ \E t \in 1..Len(tasks) : TaskStart(t)

SpecSelect == InitSelect /\ [][NextSelect]_vars

\* ---------------------------------------------------- the body on its own
\* RequestConfig::from_cli applied to every --body of up to MaxBody
\* characters, and to no --body
InitBody ==
    /\ \E b \in {{}} \cup {{s} : s \in SeqsUpTo(BodyChars, MaxBody) \cup BodyExamples} :
          cli = [mode |-> "burst", users |-> 0, rps |-> 0, duration |-> 0,
                 headers |-> <<>>, validate_url |-> FALSE, source |-> "url",
                 lines |-> <<"http://a">>, distribution |-> "RoundRobin",
                 body_str |-> b]
    /\ pc = "body"
    /\ configs = <<>>
    /\ now = 0
    /\ second = 0
    /\ second_start = 0
    /\ wake = 0
    /\ total_requests = 0
    /\ batch_start_user = 0
    /\ spawn_i = 0
    /\ batch = <<>>
    /\ tasks = <<>>
    /\ permits = 0
    /\ current_index = 0
    /\ stats = TestStatsNew
    /\ all_results = <<>>
    /\ fold_i = 0
    /\ ticks = <<>>
    /\ join_errors = 0
    /\ body = BodyNone
    /\ request = NoRequest
    /\ failed_sample = <<>>

\* from_cli: let body = if let Some(body_str) = body_str
\* { parse_body(&body_str)? } else { BodyType::None }
FromCliBody ==
    /\ pc = "body"
    /\ body' = IF cli.body_str = {} THEN BodyNone
               ELSE ParseBody(CHOOSE s \in cli.body_str : TRUE)
    /\ pc' = "main"
    /\ UNCHANGED <<cli, configs, now, second, second_start, wake,
                   total_requests, spawn_i, batch, tasks, permits,
                   current_index, stats, all_results, fold_i, ticks,
                   join_errors, batch_start_user,
                   request, failed_sample>>

NextBody == FromCliBody

SpecBody == InitBody /\ [][NextBody]_vars

\* ------------------------------------------------ the rendering on its own
\* the JSON documents nested at most d deep
RECURSIVE JsonDocs(_)
JsonDocs(d) ==
    IF d = 0
    THEN {[t |-> "number", v |-> 1]}
         \cup {[t |-> "string", v |-> c] :
                  c \in SeqsUpTo(JsonStringChars, RenderLen - 1)}
    ELSE LET sub == JsonDocs(d - 1) IN
         sub
         \cup {[t |-> "array", v |-> <<>>], [t |-> "object", v |-> <<>>]}
         \cup {[t |-> "array", v |-> <<e>>] : e \in sub}
         \cup {[t |-> "object", v |-> <<[k |-> key, val |-> e]>>] :
                  key \in JsonKeys, e \in sub}

\* the --body strings of the runs with --dynamic-body
RenderBodies ==
    SeqsUpTo(RenderChars, RenderLen)
    \cup {JsonToString(v) : v \in JsonDocs(RenderDepth)}
    \cup RenderExamples

\* the texts Uuid::new_v4().to_string() may give
Uuids == {UuidText("0"), UuidText("f")}

InitRender ==
    /\ \E s \in RenderBodies, dyn \in BOOLEAN :
          cli = [mode |-> "burst", users |-> 0, rps |-> 0, duration |-> 0,
                 headers |-> <<>>, validate_url |-> FALSE, source |-> "url",
                 lines |-> <<"http://a">>, distribution |-> "RoundRobin",
                 body_str |-> {s}, dynamic_body |-> dyn]
    /\ pc = "body"
    /\ configs = <<>>
    /\ now = 0
    /\ second = 0
    /\ second_start = 0
    /\ wake = 0
    /\ total_requests = 0
    /\ batch_start_user = 0
    /\ spawn_i = 0
    /\ batch = <<>>
    /\ tasks = <<>>
    /\ permits = 0
    /\ current_index = 0
    /\ stats = TestStatsNew
    /\ all_results = <<>>
    /\ fold_i = 0
    /\ ticks = <<>>
    /\ join_errors = 0
    /\ body = BodyNone
    /\ request = NoRequest
    /\ failed_sample = <<>>

\* make_request up to the request builder: timestamp = Utc::now() and
\* body = prepare_dynamic_body(..) under --dynamic-body, config.body.clone()
\* otherwise
MakeRequestBody ==
    /\ pc = "main"
    /\ "dynamic_body" \in DOMAIN cli
    /\ \E user_id \in RenderUsers, timestamp \in RenderTimes, uuid \in Uuids :
          request' = [user_id |-> user_id, timestamp |-> timestamp,
                      body |-> IF cli.dynamic_body
                               THEN PrepareDynamicBody(body, user_id,
                                                       timestamp, uuid)
                               ELSE body]
    /\ pc' = "sent"
    /\ UNCHANGED <<cli, configs, now, second, second_start, wake,
                   total_requests, spawn_i, batch, tasks, permits,
                   current_index, stats, all_results, fold_i, ticks,
                   join_errors, batch_start_user, body, failed_sample>>

NextRender ==
    \/ FromCliBody
    \/ MakeRequestBody

SpecRender == InitRender /\ [][NextRender]_vars

\* ================================================================ claims
TaskIds == 1..Len(tasks)
Live(t) == tasks[t].st \in {"spawned", "selected", "running"}
InFlight == Cardinality({t \in TaskIds : tasks[t].st = "running"})
TasksOfTick(k) == {t \in TaskIds : tasks[t].tick = k}
RunStarted == pc \notin {"main", "validate", "error"}

\* C1: a SustainedRPS(rps, duration) run issues rps * duration requests in
\* total; tick k issues exactly rps requests, with the user ids
\* (k-1)*rps+1 .. k*rps, so the ids start at 1, increase strictly in issue
\* order and none is issued twice or skipped.
C1_TickUserIds ==
    /\ \A t \in TaskIds : tasks[t].user_id = t
    /\ \A t \in TaskIds :
          /\ tasks[t].tick \in 1..cli.duration
          /\ tasks[t].user_id >= (tasks[t].tick - 1) * cli.rps + 1
          /\ tasks[t].user_id <= tasks[t].tick * cli.rps
    /\ \A k \in 1..second : Cardinality(TasksOfTick(k)) = cli.rps
    /\ pc \in {"join", "fold", "pace", "sleep"} =>
          Cardinality(TasksOfTick(second + 1)) = cli.rps
    /\ pc \in {"final", "done"} =>
          /\ Len(tasks) = cli.rps * cli.duration
          /\ total_requests = cli.rps * cli.duration

C1_Witness ==
    /\ pc = "done" /\ cli.rps = 2 /\ cli.duration = 2
    /\ Len(tasks) = 4
    /\ tasks[3].tick = 2 /\ tasks[3].user_id = 3

\* C2: in SustainedRPS mode at most 2*rps calls are in flight; a call is in
\* flight only while it holds a permit of the gate, and the permit is back
\* when the call has ended, whatever its outcome, so all 2*rps permits are
\* free once a tick's batch has completed.
C2_GateBoundsInFlight ==
    RunStarted =>
        /\ InFlight <= 2 * cli.rps
        /\ permits >= 0
        /\ permits + InFlight = 2 * cli.rps
        /\ (pc \in {"fold", "pace", "sleep", "tick", "final", "done"}
              \/ (pc = "join" /\ AllJoined(batch)))
           => permits = 2 * cli.rps

C2_Witness ==
    /\ cli.rps = 2 /\ pc = "join" /\ AllJoined(batch) /\ second = 1
    /\ permits = 4
    /\ \E t \in TaskIds : tasks[t].st = "done" /\ tasks[t].result.success
    /\ \E t \in TaskIds : tasks[t].st = "done" /\ ~tasks[t].result.success

\* C3 as stated: a request of tick k that has not completed does not delay
\* tick k+1, i.e. the engine is never held back by an outstanding request
\* once the next tick is due.
C3_Original ==
    ~ ( /\ pc = "join"
        /\ second + 1 < cli.duration
        /\ now - second_start >= OneSec
        /\ \E t \in TaskIds : tasks[t].st = "running" )

\* C3 (amended): each tick issues its full quota of rps requests, but only
\* after every request of the earlier ticks has completed and been
\* collected: the main task leaves join_all only when no task of the batch
\* is outstanding, so every outstanding request belongs to the current tick.
C3_TickWaitsForBatch ==
    /\ \A t \in TaskIds :
          Live(t) => tasks[t].tick = second + 1 /\ pc \in {"spawn", "join"}
    /\ \A t \in TaskIds : tasks[t].tick < second + 1 => tasks[t].st = "joined"
    /\ pc \in {"join", "fold", "pace", "sleep"} => Len(batch) = cli.rps

C3_Witness ==
    /\ Len(ticks) = 2 /\ pc = "spawn" /\ cli.rps = 2
    /\ ticks[2].start > ticks[1].start + OneSec
    /\ ~ticks[1].slept

\* C4: consecutive ticks start at least one second apart: a tick whose batch
\* completed in under a second sleeps until exactly one second after the
\* tick's start, and a tick whose batch took a second or more is followed
\* by the next tick with no sleep.
C4_TickSpacing ==
    /\ \A k \in 1..(Len(ticks) - 1) :
          /\ ticks[k + 1].start >= ticks[k].start + OneSec
          /\ ticks[k].slept <=> ticks[k].elapsed < OneSec
          /\ ~ticks[k].slept => ticks[k + 1].start = ticks[k].start + ticks[k].elapsed
    /\ pc = "sleep" =>
          /\ ticks[Len(ticks)].slept
          /\ ticks[Len(ticks)].elapsed < OneSec
          /\ wake = second_start + OneSec
    /\ pc \in {"final", "done"} =>
          \A k \in 1..Len(ticks) : ticks[k].slept <=> ticks[k].elapsed < OneSec

C4_Witness ==
    /\ pc = "done" /\ Len(ticks) = 2
    /\ ticks[1].slept /\ ticks[1].elapsed = 1
    /\ ~ticks[2].slept /\ ticks[2].elapsed >= OneSec
    /\ ticks[2].start = ticks[1].start + OneSec

ResultIds == 1..Len(all_results)
NoneLive == \A t \in TaskIds : ~Live(t)

\* C5 as stated: a finished Burst(N) run has totalRequests = N.
C5_Original ==
    pc = "done" => stats.total_requests = cli.users

\* C5 (amended): Burst(N) dispatches exactly N calls with the user ids 1..N,
\* each once; every call that returns, with a 2xx status, another status or
\* a transport failure, yields exactly one outcome that is folded, and
\* failed outcomes are counted as failed; a finished run has totalRequests
\* = N minus the number of tasks that failed at task level, so N when no
\* task did, with N successful and 0 failed when every call returned 2xx.
C5_BurstOutcomes ==
    /\ \A t \in TaskIds : tasks[t].user_id = t
    /\ Len(tasks) <= cli.users
    /\ pc \in {"join", "fold", "final", "done"} => Len(tasks) = cli.users
    /\ \A i, j \in ResultIds :
          all_results[i].user_id = all_results[j].user_id => i = j
    /\ \A i \in ResultIds : all_results[i].user_id \in 1..cli.users
    /\ stats.total_requests = Len(all_results)
    /\ stats.successful = Cardinality({i \in ResultIds : all_results[i].success})
    /\ stats.failed = Cardinality({i \in ResultIds : ~all_results[i].success})
    /\ pc \in {"final", "done"} =>
          /\ stats.total_requests + join_errors = cli.users
          /\ join_errors = 0 => stats.total_requests = cli.users
          /\ (join_errors = 0 /\ \A i \in ResultIds : all_results[i].success)
                => stats.successful = cli.users /\ stats.failed = 0

C5_Witness ==
    /\ pc = "done" /\ cli.users = 2 /\ join_errors = 0
    /\ stats.total_requests = 2 /\ stats.failed = 2
    /\ \E i \in ResultIds : all_results[i].status_code = {}
    /\ \E i \in ResultIds : all_results[i].status_code = {500}

StatsTouched ==
    \/ stats' # stats
    \/ join_errors' # join_errors
    \/ pc' \in {"pace", "final", "done"}

NotCancelled ==
    \A t \in TaskIds :
        tasks[t].st = "running" => tasks'[t].st \in {"running", "done", "panicked"}

\* C6: in every run mode the statistics of a batch are folded, reported and
\* finalized only when no call of the batch is outstanding, and a call in
\* flight is never cancelled: it stays in flight until it returns or its
\* task fails.
C6_StatsAfterBatch ==
    /\ [][StatsTouched => NoneLive]_vars
    /\ [][NotCancelled]_vars

C6_Witness ==
    /\ pc = "fold" /\ cli.mode = "multi" /\ fold_i = 1
    /\ stats.total_requests = 1
    /\ NoneLive

BadHeader(c) == \E i \in 1..Len(c.headers) : ~HasColon(c.headers[i])
NoSource(c) == c.mode = "multi" /\ c.source = "none"
EmptyPool(c) == c.mode = "multi" /\ \A i \in 1..Len(c.lines) : c.lines[i] \notin Urls
BadUrl == cli.validate_url /\ \E i \in 1..Len(configs) : ~ValidateUrl(configs[i])

ConfigErrorPending ==
    \/ pc = "main" /\ (BadHeader(cli) \/ NoSource(cli) \/ EmptyPool(cli))
    \/ pc = "validate" /\ BadUrl

\* C7: a configuration error (a header without ':', no target source, an
\* empty pool, or with validation requested a target url that does not
\* parse or is not http/https) makes the run return an error, and no
\* request has been issued when it does; in multi mode every target is
\* validated before the first task is spawned.
C7_ConfigErrorAborts ==
    /\ [](pc \in {"main", "validate", "error"} => tasks = <<>>)
    /\ [][ConfigErrorPending => pc' = "error" /\ tasks' = <<>>]_vars
    /\ [][pc = "error" => pc' = "error"]_vars

C7_Witness ==
    /\ pc = "error" /\ cli.mode = "multi" /\ cli.validate_url
    /\ Len(configs) = 2
    /\ ValidateUrl(configs[1]) /\ ~ValidateUrl(configs[2])

\* C8: a task-level failure is logged and excluded from the statistics in
\* every run mode: collecting it changes no field of the statistics.
C8_TaskFailureExcluded ==
    [][join_errors' # join_errors => stats' = stats]_vars

\* C9: in every reachable state of every run mode, also after task-level
\* failures, successful + failed = totalRequests.
C9_CountsAddUp ==
    stats.successful + stats.failed = stats.total_requests

FirstSuccessFolded ==
    (stats.successful = 0 /\ stats'.successful = 1) =>
        LET r == tasks[batch[fold_i + 1]].result IN
        /\ stats'.min_duration = r.duration
        /\ stats'.max_duration = r.duration

\* C10: starting from a fresh TestStats, minLatency <= maxLatency whenever
\* successful > 0, and folding the first successful outcome sets both to
\* that outcome's elapsed time.
C10_MinMax ==
    /\ [](stats.successful > 0 => stats.min_duration <= stats.max_duration)
    /\ [][FirstSuccessFolded]_vars

C10_Witness ==
    /\ stats.successful = 2 /\ stats.failed > 0
    /\ stats.min_duration = 1 /\ stats.max_duration = 2

\* ------------------------------------------------- claims on the statistics
SuccIds == {i \in ResultIds : all_results[i].success}
FailIds == {i \in ResultIds : ~all_results[i].success}

RECURSIVE SumDurations(_)
SumDurations(ids) ==
    IF ids = {} THEN 0
    ELSE LET i == CHOOSE j \in ids : TRUE
         IN  all_results[i].duration + SumDurations(ids \ {i})

Finalized == pc \in {"done", "done2"}

\* C11: for every sequence of outcomes folded into TestStats::new() and
\* finalized, total_requests is the length of the sequence, successful and
\* failed count its successful and failed outcomes, min_duration and
\* max_duration are the least and greatest duration of the successful
\* outcomes, total_duration is their sum, avg_duration is total_duration
\* div successful when successful > 0 and zero otherwise, and
\* min <= avg <= max when successful > 0.
C11_FoldedStats ==
    Finalized =>
        /\ stats.total_requests = Len(all_results)
        /\ stats.successful = Cardinality(SuccIds)
        /\ stats.failed = Cardinality(FailIds)
        /\ stats.total_duration = SumDurations(SuccIds)
        /\ SuccIds # {} =>
              /\ \E i \in SuccIds : all_results[i].duration = stats.min_duration
              /\ \A i \in SuccIds : all_results[i].duration >= stats.min_duration
              /\ \E i \in SuccIds : all_results[i].duration = stats.max_duration
              /\ \A i \in SuccIds : all_results[i].duration <= stats.max_duration
              /\ stats.avg_duration = stats.total_duration \div stats.successful
              /\ stats.min_duration <= stats.avg_duration
              /\ stats.avg_duration <= stats.max_duration
        /\ SuccIds = {} => stats.avg_duration = 0

C11_Witness ==
    /\ pc = "done" /\ Len(all_results) = 3
    /\ all_results[1].success /\ all_results[1].duration = 10
    /\ all_results[2].success /\ all_results[2].duration = 20
    /\ ~all_results[3].success
    /\ stats.total_requests = 3 /\ stats.successful = 2 /\ stats.failed = 1
    /\ stats.min_duration = 10 /\ stats.max_duration = 20
    /\ stats.avg_duration = 15

FoldsFailed ==
    /\ pc = "fold" /\ fold_i < Len(batch) /\ fold_i' = fold_i + 1
    /\ tasks[batch[fold_i + 1]].st = "done"
    /\ ~tasks[batch[fold_i + 1]].result.success

RECURSIVE SumCodes(_)
SumCodes(codes) ==
    IF DOMAIN codes = {} THEN 0
    ELSE LET c == CHOOSE k \in DOMAIN codes : TRUE
         IN  codes[c] + SumCodes([k \in DOMAIN codes \ {c} |-> codes[k]])

\* C12: folding a failed outcome adds one to total_requests and to failed
\* and leaves min_duration, max_duration, total_duration, avg_duration,
\* successful and status_codes as they were, also when the outcome carries
\* a status code and a duration; so status_codes never holds a non-2xx
\* code and its counts never add up to more than successful.
C12_FailedOutcomeFrame ==
    /\ [][FoldsFailed =>
            /\ stats'.total_requests = stats.total_requests + 1
            /\ stats'.failed = stats.failed + 1
            /\ stats'.min_duration = stats.min_duration
            /\ stats'.max_duration = stats.max_duration
            /\ stats'.total_duration = stats.total_duration
            /\ stats'.avg_duration = stats.avg_duration
            /\ stats'.successful = stats.successful
            /\ stats'.status_codes = stats.status_codes]_vars
    /\ [](\A c \in DOMAIN stats.status_codes : IsSuccess(c))
    /\ [](SumCodes(stats.status_codes) <= stats.successful)

C12_Witness ==
    /\ pc = "fold" /\ Len(all_results) = 2
    /\ all_results[1].success /\ all_results[1].duration = 15
    /\ ~all_results[2].success /\ all_results[2].status_code = {500}
    /\ all_results[2].duration = 10
    /\ stats.total_requests = 2 /\ stats.failed = 1
    /\ stats.min_duration = 15 /\ DOMAIN stats.status_codes = {200}

\* the result loop of simulate_burst over the outcomes rs, from
\* TestStats::new()
RECURSIVE FoldAll(_)
FoldAll(rs) ==
    IF rs = <<>> THEN TestStatsNew
    ELSE AddResult(FoldAll(SubSeq(rs, 1, Len(rs) - 1)), rs[Len(rs)])

\* the folded outcomes taken in the order p
Permuted(p) == [i \in ResultIds |-> all_results[p[i]]]

\* C13: the finalized statistics depend only on which outcomes were folded,
\* not on their order: folding any permutation of the folded outcomes into
\* TestStats::new() and finalizing gives the same total_requests,
\* successful, failed, min, max, total and avg duration and status_codes.
C13_OrderIndependent ==
    pc = "done" =>
        \A p \in Permutations(ResultIds) :
            CalculateFinal(FoldAll(Permuted(p))) = stats

C13_Witness ==
    /\ pc = "done" /\ Len(all_results) = 3
    /\ all_results[1].success /\ all_results[1].duration = 20
    /\ all_results[1].status_code = {201}
    /\ ~all_results[2].success
    /\ all_results[3].success /\ all_results[3].duration = 10
    /\ all_results[3].status_code = {200}
    /\ stats.min_duration = 10 /\ stats.max_duration = 20

\* C14: calculate_final called a second time with no add_result in between
\* leaves every field, avg_duration included, unchanged; and no call of
\* calculate_final changes a field other than avg_duration.
C14_FinalizeIdempotent ==
    /\ [][pc = "done" /\ pc' = "done2" => stats' = stats]_vars
    /\ [][(pc = "final" /\ pc' = "done") \/ (pc = "done" /\ pc' = "done2") =>
            stats' = [stats EXCEPT !.avg_duration = stats'.avg_duration]]_vars

C14_Witness ==
    /\ pc = "done2" /\ stats.successful = 2 /\ stats.failed = 1
    /\ stats.total_duration = 25 /\ stats.avg_duration = 12

\* ---------------------------------------- claims on the target selection
Selected == {t \in TaskIds : tasks[t].st \in {"selected", "running"}}
SelectedAt(k) == {t \in Selected : tasks[t].cfg = k}
PoolSize == Len(configs)

\* C15: under RoundRobin, whatever the interleaving of the tasks calling
\* get_next_config, no two calls get the same pre-increment value of
\* current_index and no increment is lost: after N calls current_index is
\* N and the values the calls got are exactly 0..N-1.
C15_FetchAddExactlyOnce ==
    cli.distribution = "RoundRobin" =>
        /\ \A t \in Selected : Cardinality(tasks[t].seen) = 1
        /\ \A t, u \in Selected : tasks[t].seen = tasks[u].seen => t = u
        /\ UNION {tasks[t].seen : t \in Selected} = 0..(Cardinality(Selected) - 1)
        /\ current_index = Cardinality(Selected)

C15_Witness ==
    /\ cli.distribution = "RoundRobin" /\ Len(tasks) = 4
    /\ Cardinality(Selected) = 4 /\ current_index = 4
    /\ tasks[1].seen = {3} /\ tasks[2].seen = {1}
    /\ tasks[3].seen = {2} /\ tasks[4].seen = {0}

\* C16: for every non-empty pool and every N, RoundRobin selection over N
\* calls, made one after another or concurrently by the tasks of a multi
\* run, selects each pool index floor(N / poolSize) or ceil(N / poolSize)
\* times, so the request counts of two targets differ by at most one.
C16_RoundRobinBalanced ==
    cli.distribution = "RoundRobin" =>
        LET N == Cardinality(Selected) IN
        /\ \A k \in 0..(PoolSize - 1) :
              Cardinality(SelectedAt(k)) \in
                  {N \div PoolSize, (N + PoolSize - 1) \div PoolSize}
        /\ \A k, l \in 0..(PoolSize - 1) :
              Cardinality(SelectedAt(k)) - Cardinality(SelectedAt(l)) \in -1..1

C16_Witness ==
    /\ cli.distribution = "RoundRobin" /\ PoolSize = 3 /\ Len(tasks) = 4
    /\ Cardinality(Selected) = 4
    /\ SelectedAt(0) = {2, 3} /\ SelectedAt(1) = {4} /\ SelectedAt(2) = {1}

\* C17 as stated: every user's target is resolved before a call is issued,
\* and under RoundRobin user i is dispatched against pool index
\* (i-1) mod poolSize whatever the scheduling.
C17_Original ==
    /\ (\E t \in TaskIds : tasks[t].st = "running") =>
          \A t \in TaskIds : tasks[t].st # "spawned"
    /\ cli.distribution = "RoundRobin" =>
          \A t \in Selected : tasks[t].cfg = (tasks[t].user_id - 1) % PoolSize

\* C17 (amended): in a multi run each user's target is resolved inside that
\* user's task, in the order in which the tasks happen to run, while the
\* calls of other users may already be in flight. Under RoundRobin the
\* call that gets the pre-increment counter value c is dispatched against
\* pool index c mod poolSize, so which user goes to which target differs
\* between executions and only the number of users per target is fixed;
\* under Sequential user i is always dispatched against pool index
\* (i-1) mod poolSize.
C17_ResolvedInTask ==
    /\ \A t \in TaskIds : tasks[t].st = "running" => t \in Selected
    /\ \A t \in TaskIds : tasks[t].st = "spawned" => tasks[t].seen = {}
    /\ cli.distribution = "RoundRobin" =>
          /\ \A t \in Selected :
                \E c \in tasks[t].seen :
                    /\ c < Cardinality(Selected)
                    /\ tasks[t].cfg = c % PoolSize
          /\ \A k \in 0..(PoolSize - 1) :
                Cardinality(SelectedAt(k)) =
                    Cardinality({c \in 0..(current_index - 1) : c % PoolSize = k})
    /\ cli.distribution = "Sequential" =>
          \A t \in Selected : tasks[t].cfg = (tasks[t].user_id - 1) % PoolSize

C17_Witness ==
    /\ cli.distribution = "RoundRobin" /\ PoolSize = 2 /\ Len(tasks) = 2
    /\ tasks[2].st = "running" /\ tasks[2].cfg = 0
    /\ tasks[1].st = "selected" /\ tasks[1].cfg = 1

SequentialTable == <<0, 1, 2, 0, 1, 2, 0, 1, 2>>

C19_SequentialBlocks ==
    cli.distribution = "Sequential" =>
        \A t, u \in Selected :
            tasks[t].user_id <= tasks[u].user_id => tasks[t].cfg <= tasks[u].cfg

\* ------------------------------------------------------ claims on the body
BodyParsed == pc = "main" /\ "body_str" \in DOMAIN cli /\ cli.body_str # {}
BodyStr == CHOOSE s \in cli.body_str : TRUE
IsBlank(s) == \A i \in 1..Len(s) : s[i] = " "
FormShaped(s) == Contains(s, "=") /\ s[1] \notin {"{", "["}

\* some piece of s between two '&' is key, '=', value, with no '=' in key
IsPairOf(key, value, s) ==
    /\ ~Contains(key, "=") /\ ~Contains(key, "&") /\ ~Contains(value, "&")
    /\ \E i \in 0..Len(s) :
          LET piece == key \o <<"=">> \o value IN
          /\ i + Len(piece) <= Len(s)
          /\ SubSeq(s, i + 1, i + Len(piece)) = piece
          /\ i = 0 \/ s[i] = "&"
          /\ i + Len(piece) = Len(s) \/ s[i + Len(piece) + 1] = "&"

\* C20: parse_body is total and never returns an error; it tries empty,
\* JSON, form, base64 and text in this order and returns the first that
\* succeeds: a whitespace-only string is None; otherwise a string that
\* parses as JSON is Json; otherwise a string containing '=' and not
\* starting with '{' or '[' is Form, holding at least one key=value pair
\* cut at the first '='; otherwise a string that decodes as base64 is
\* Binary; otherwise the result is Text holding the string itself.
C20_ProbeOrder ==
    /\ pc # "error"
    /\ body.kind \in {"None", "Json", "Form", "Binary", "Text"}
    /\ BodyParsed =>
        LET s == BodyStr IN
        IF IsBlank(s) THEN body = BodyNone
        ELSE IF JsonParse(s) # {}
        THEN body.kind = "Json" /\ body.json \in JsonParse(s)
        ELSE IF FormShaped(s)
        THEN /\ body.kind = "Form"
             /\ DOMAIN body.form # {}
             /\ \A k \in DOMAIN body.form : IsPairOf(k, body.form[k], s)
        ELSE IF Base64Decode(s) # {}
        THEN body.kind = "Binary" /\ body.bytes \in Base64Decode(s)
        ELSE body.kind = "Text" /\ body.text = s

C20_Witness ==
    /\ BodyParsed
    /\ BodyStr = <<"Q", "Q", "=", "=">>
    /\ Base64Decode(BodyStr) = {<<65>>}
    /\ body.kind = "Form"
    /\ body.form = (<<"Q", "Q">> :> <<"=">>)

\* C21: parse_body of the valid base64 string aGVsbG8=, and of every
\* '='-padded valid base64 string that is not valid JSON, is Binary holding
\* the decoded bytes.
C21_PaddedBase64IsBinary ==
    ( /\ BodyParsed
      /\ Contains(BodyStr, "=")
      /\ Base64Decode(BodyStr) # {}
      /\ JsonParse(BodyStr) = {} )
    => body.kind = "Binary" /\ body.bytes \in Base64Decode(BodyStr)

\* ------------------------------------------------- claims on the rendering
Rendered == pc = "sent" /\ cli.dynamic_body

\* the texts the Json arm may hand to the re-parse
SubstitutedJson ==
    {RenderJsonText(JsonToString(body.json), request.user_id,
                    request.timestamp, uuid) : uuid \in Uuids}

\* C22: prepare_dynamic_body never fails: for every body, user id and
\* timestamp it returns a body; Text stays Text, Form stays Form with the
\* same keys, Binary and None come back unchanged, and Json stays Json
\* unless the substituted text does not re-parse, and then the result is
\* Text holding exactly the substituted text.
C22_RenderTotal ==
    Rendered =>
        /\ request.body.kind \in {"None", "Json", "Form", "Binary", "Text"}
        /\ body.kind = "Text" => request.body.kind = "Text"
        /\ body.kind = "Form" =>
              /\ request.body.kind = "Form"
              /\ DOMAIN request.body.form = DOMAIN body.form
        /\ body.kind \in {"Binary", "None"} => request.body = body
        /\ body.kind = "Json" =>
              \/ /\ request.body.kind = "Json"
                 /\ \E t \in SubstitutedJson : request.body.json \in JsonParse(t)
              \/ /\ request.body.kind = "Text"
                 /\ request.body.text \in SubstitutedJson
                 /\ JsonParse(request.body.text) = {}

C22_Witness ==
    /\ Rendered
    /\ body = [kind |-> "Json",
               json |-> [t |-> "object",
                         v |-> <<[k |-> <<UserIdPh>>,
                                  val |-> [t |-> "number", v |-> 1]]>>]]
    /\ request.user_id = 7
    /\ request.body = [kind |-> "Text", text |-> <<"{", "7", ":", "1", "}">>]

HasPlaceholder(s) == \E p \in Placeholders : Contains(s, p)

\* C23: prepare_dynamic_body replaces every occurrence of {{userId}},
\* {{timestamp}} and {{uuid}} in a Text body and in every value of a Form
\* body, so no rendered Text body and no rendered Form value holds a
\* placeholder, and {{userId}} becomes the decimal user id: the Text
\* id={{userId}} rendered for user 7 is id=7.
C23_PlaceholdersReplaced ==
    /\ Rendered =>
          /\ request.body.kind = "Text" => ~HasPlaceholder(request.body.text)
          /\ request.body.kind = "Form" =>
                \A k \in DOMAIN request.body.form :
                    ~HasPlaceholder(request.body.form[k])
    /\ \A t \in RenderTimes, u \in Uuids :
          PrepareDynamicBody([kind |-> "Text",
                              text |-> <<"i", "d", "=", UserIdPh>>], 7, t, u)
             = [kind |-> "Text", text |-> <<"i", "d", "=", "7">>]

\* no key holds a placeholder, and a string value that holds one is exactly
\* that placeholder
RECURSIVE WholeValues(_)
WholeValues(v) ==
    CASE v.t = "number" -> TRUE
      [] v.t = "string" -> HasPlaceholder(v.v) => Len(v.v) = 1
      [] v.t = "array" -> v.v = <<>> \/ WholeValues(v.v[1])
      [] v.t = "object" ->
            v.v = <<>> \/ (~HasPlaceholder(v.v[1].k) /\ WholeValues(v.v[1].val))

\* the document with every {{userId}} value turned into the number user_id
\* and every {{timestamp}} or {{uuid}} value into the string of its text
RECURSIVE Substituted(_, _, _, _)
Substituted(v, user_id, timestamp, uuid) ==
    CASE v.t = "number" -> v
      [] v.t = "string" ->
            IF v.v = <<UserIdPh>> THEN [t |-> "number", v |-> user_id]
            ELSE IF v.v = <<TimestampPh>>
            THEN [t |-> "string", v |-> Rfc3339(timestamp)]
            ELSE IF v.v = <<UuidPh>> THEN [t |-> "string", v |-> uuid]
            ELSE v
      [] v.t = "array" ->
            IF v.v = <<>> THEN v
            ELSE [v EXCEPT !.v = <<Substituted(v.v[1], user_id, timestamp, uuid)>>]
      [] v.t = "object" ->
            IF v.v = <<>> THEN v
            ELSE [v EXCEPT !.v =
                    <<[k |-> v.v[1].k,
                       val |-> Substituted(v.v[1].val, user_id, timestamp, uuid)]>>]

\* C24: rendering a Json body whose placeholders are whole string values
\* gives a Json body again, never a Text: a {{userId}} value has become the
\* number user_id, a {{timestamp}} or {{uuid}} value the string of its
\* text, and the substituted document re-parses.
C24_JsonStaysJson ==
    (Rendered /\ body.kind = "Json" /\ WholeValues(body.json)) =>
        /\ request.body.kind = "Json"
        /\ \E u \in Uuids :
              request.body.json =
                  Substituted(body.json, request.user_id, request.timestamp, u)

\* ---------------------------------------------- claims on the whole run
SampleSize == IF cli.mode = "multi" THEN SampleMulti ELSE SampleBurst

\* C25: in every run mode a run that ends with failed > 0 has listed a
\* non-empty sample of failed outcomes: the first min(failed, K) of them in
\* collection order, K = 5 for a single-target run and 10 for a multi run.
C25_FailedSample ==
    (pc = "done" /\ stats.failed > 0) =>
        /\ failed_sample # <<>>
        /\ Len(failed_sample) =
              IF stats.failed < SampleSize THEN stats.failed ELSE SampleSize
        /\ \A i \in 1..Len(failed_sample) : ~failed_sample[i].success

\* the result of a call that got a response with status c, or no response
WellFormed(r) ==
    /\ Cardinality(r.status_code) <= 1
    /\ r.status_code = {} => ~r.success /\ r.error = {<<"transport">>}
    /\ \A c \in r.status_code :
          /\ r.success <=> c \in 200..299
          /\ r.error = IF r.success THEN {} ELSE {<<"HTTP", c>>}

\* C26: every result make_request returns is well-formed: success holds
\* exactly when a response with a 2xx status came back; with a response the
\* status code is present and the error is absent on success and "HTTP
\* <status>" otherwise; with no response the status code is absent, success
\* is false and the error is the transport error; user id and url are
\* those the task was dispatched with.
C26_OutcomeWellFormed ==
    /\ \A t \in TaskIds :
          tasks[t].st = "done" =>
              /\ WellFormed(tasks[t].result)
              /\ tasks[t].result.user_id = tasks[t].user_id
              /\ tasks[t].result.url = configs[tasks[t].cfg + 1]
    /\ \A i \in ResultIds :
          /\ WellFormed(all_results[i])
          /\ \E t \in TaskIds :
                /\ tasks[t].st = "joined"
                /\ all_results[i].user_id = tasks[t].user_id
                /\ all_results[i].url = configs[tasks[t].cfg + 1]

C26_Witness ==
    /\ cli.mode = "multi" /\ Len(configs) = 2 /\ configs[1] # configs[2]
    /\ Len(tasks) = 2
    /\ tasks[1].st = "done" /\ tasks[1].result.status_code = {}
    /\ tasks[1].result.error = {<<"transport">>}
    /\ tasks[2].st = "done" /\ tasks[2].cfg = 1
    /\ tasks[2].result.url = configs[2]
    /\ tasks[2].result.status_code = {500}
    /\ tasks[2].result.error = {<<"HTTP", 500>>}
    /\ ~tasks[2].result.success

AtGate == {t \in TaskIds : tasks[t].st = "spawned"}

\* C27: in an rps run no call of an earlier tick is in flight when a tick
\* starts issuing, so at most rps calls are in flight and at most rps
\* permits are held, and for rps >= 1 no call waits at the gate for another
\* call to give its permit back: a permit is free whenever a task is at the
\* gate.
C27_GateNeverBlocks ==
    /\ pc = "tick" => InFlight = 0 /\ AtGate = {}
    /\ (pc = "spawn" /\ spawn_i = 0) => InFlight = 0 /\ AtGate = {}
    /\ RunStarted =>
          /\ InFlight <= cli.rps
          /\ GatePermits(cli.rps) - permits <= cli.rps
          /\ Cardinality(AtGate) + InFlight <= cli.rps
          /\ AtGate # {} => permits > 0

C27_Witness ==
    /\ cli.rps = 2 /\ second = 1 /\ pc = "join"
    /\ InFlight = 2 /\ permits = 2
    /\ tasks[1].st = "joined" /\ tasks[2].st = "joined"
    /\ tasks[3].st = "running" /\ tasks[4].st = "running"

Selects ==
    \E t \in TaskIds :
        /\ t \in DOMAIN tasks'
        /\ tasks[t].st = "spawned" /\ tasks'[t].st = "selected"

\* C28: every selection of a multi run returns a config of the pool: an
\* empty pool is rejected before the tester is built, get_next_config is
\* called with a non-empty pool and a user id >= 1, for each of the four
\* distributions the index lies in 0..len-1, and no selection (nor any
\* later step) changes the pool.
C28_SelectionInPool ==
    /\ [](cli.mode = "multi" =>
            /\ tasks # <<>> => configs # <<>>
            /\ pc \notin {"main", "error"} => configs # <<>>
            /\ \A t \in TaskIds :
                  /\ tasks[t].user_id >= 1
                  /\ tasks[t].st \in {"selected", "running", "done"} =>
                        /\ tasks[t].cfg \in 0..(Len(configs) - 1)
                        /\ configs[tasks[t].cfg + 1] \in Urls)
    /\ [](\A d \in Distributions, n \in 1..MaxPool,
             u \in 1..MultiUsers, c \in 0..MultiUsers :
               /\ NextConfigIndex(d, u, c, n) # {}
               /\ NextConfigIndex(d, u, c, n) \subseteq 0..(n - 1))
    /\ [][Selects => Len(configs) > 0 /\ configs' = configs]_vars
    /\ [][pc # "main" => configs' = configs]_vars

C28_Witness ==
    /\ cli.mode = "multi" /\ cli.distribution = "Weighted"
    /\ Len(configs) = 2 /\ Len(tasks) = 2
    /\ tasks[1].st = "selected" /\ tasks[1].cfg = 1
    /\ tasks[2].st = "running" /\ tasks[2].cfg = 0

\* C29: if every request that was sent returns or times out and the tasks
\* are scheduled fairly, an rps run terminates: after a configuration error
\* at once, otherwise every task at the gate gets a permit, also with rps =
\* 0 where there is none, every batch is joined, exactly `duration` ticks
\* are executed and the statistics are finalized.
C29_RpsTerminates ==
    /\ <>(pc \in {"done", "error"})
    /\ RunStarted ~> (pc = "done" /\ Len(ticks) = cli.duration /\ NoneLive)
    /\ (AtGate # {}) ~> (AtGate = {})
    /\ [](pc = "done" =>
            /\ Len(ticks) = cli.duration
            /\ Len(tasks) = cli.rps * cli.duration
            /\ permits = GatePermits(cli.rps))

C29_Witness ==
    /\ pc = "done" /\ cli.rps = 2 /\ cli.duration = 2
    /\ Len(ticks) = 2 /\ ticks[1].slept
    /\ Len(tasks) = 4 /\ NoneLive
    /\ join_errors = 1 /\ stats.successful = 1

====
